---- MODULE Spec2Model ----
(***************************************************************************)
(* Model of the Miden RPC client adapter (src/src/lib.rs).                 *)
(*                                                                         *)
(* MidenRpcClient wraps one tonic ApiClient<Channel>.  connect builds the  *)
(* channel in three steps (from_shared, tls_config, connect); every        *)
(* operation takes `&mut self`, converts its arguments to wire messages,   *)
(* issues one remote call, awaits it, and maps the outcome to a            *)
(* Result<_, String>.                                                      *)
(*                                                                         *)
(* A u64 is modelled as four 16-bit limbs, most significant first, so that *)
(* the full 64-bit width is representable and to_le_bytes has to reorder.  *)
(***************************************************************************)
EXTENDS Integers, Sequences, FiniteSets, TLC

VARIABLES
    conn,           \* "unconnected" | "handshaking" | "connected" (adapter exists)
    endpoint_str,   \* the endpoint string of the last connect call
    connectLog,     \* the channel-building steps the last connect call executed
    netIO,          \* network operations the last connect call started
    connectResult,  \* what the last connect call returned (NoResult while pending)
    pc,             \* per caller: "idle" | "awaiting"
    borrow,         \* the caller holding the `&mut self` borrow, or NoCaller
    call,           \* per caller: the invocation it is in or last made
    result,         \* per caller: transport response and returned Result
    invocations,    \* adapter operations invoked so far
    remoteCalls     \* remote calls handed to the transport so far

vars == <<conn, endpoint_str, connectLog, netIO, connectResult,
          pc, borrow, call, result, invocations, remoteCalls>>

connVars == <<conn, endpoint_str, connectLog, netIO, connectResult>>
callVars == <<pc, borrow, call, result, invocations, remoteCalls>>

----------------------------------------------------------------------------
(* Bounds of the model *)

MaxCalls == 2

Callers == {"c1", "c2"}
NoCaller == "nobody"

----------------------------------------------------------------------------
(* Rust's Option and Result *)

None == [some |-> FALSE]
Some(x) == [some |-> TRUE, value |-> x]

Ok(x) == [ok |-> TRUE, value |-> x]
Err(e) == [ok |-> FALSE, err |-> e]

NoResult == [ok |-> FALSE, err |-> "", pending |-> TRUE]
NoCall == [op |-> "none"]

----------------------------------------------------------------------------
(* 64-bit integers: <<l3, l2, l1, l0>>, value l3*2^48 + l2*2^32 + l1*2^16 + l0 *)

u64(n) == <<0, 0, 0, n>>

\* u64::to_le_bytes: the eight bytes, least significant first
to_le_bytes(x) ==
    << x[4] % 256, x[4] \div 256, x[3] % 256, x[3] \div 256,
       x[2] % 256, x[2] \div 256, x[1] % 256, x[1] \div 256 >>

\* u64::to_be_bytes: the eight bytes, most significant first
to_be_bytes(x) ==
    << x[1] \div 256, x[1] % 256, x[2] \div 256, x[2] % 256,
       x[3] \div 256, x[3] % 256, x[4] \div 256, x[4] % 256 >>

\* [[u8; 8]; 4]::concat
RECURSIVE concat(_)
concat(arrays) ==
    IF arrays = <<>> THEN <<>> ELSE Head(arrays) \o concat(Tail(arrays))

\* hex::encode: two lowercase hex characters per byte, high nibble first
HEX_CHARS_LOWER == "0123456789abcdef"

byte2hex(b) ==
    SubSeq(HEX_CHARS_LOWER, (b \div 16) + 1, (b \div 16) + 1)
        \o SubSeq(HEX_CHARS_LOWER, (b % 16) + 1, (b % 16) + 1)

RECURSIVE hex_encode(_)
hex_encode(bytes) ==
    IF bytes = <<>> THEN "" ELSE byte2hex(Head(bytes)) \o hex_encode(Tail(bytes))

----------------------------------------------------------------------------
(* Domain values of miden_objects, as far as the adapter reads them *)

\* A field element; as_int is its canonical 64-bit integer.
Felt(x) == [int |-> x]
as_int(felt) == felt.int

\* A note identifier wraps a word; a note tag wraps a u32.
NoteId(word) == [word |-> word]
as_word(note_id) == note_id.word

NoteTag(n) == [tag |-> n]
as_u32(tag) == tag.tag

\* An account identifier is a prefix and a suffix element; its serialization
\* is the 15 bytes: prefix big-endian, then the upper 7 bytes of the suffix.
AccountId(prefix, suffix) == [prefix |-> prefix, suffix |-> suffix]
to_bytes(account_id) ==
    to_be_bytes(account_id.prefix) \o SubSeq(to_be_bytes(account_id.suffix), 1, 7)
to_vec(bytes) == bytes

----------------------------------------------------------------------------
(* mod convert *)

\* Digest with the fields of the word swapped pairwise
word_to_digest_swapped(word) ==
    [d0 |-> as_int(word[2]), d1 |-> as_int(word[1]),
     d2 |-> as_int(word[4]), d3 |-> as_int(word[3])]

\* word[0..3] of the source are word[1..4] here
word_to_digest(word) ==
    [d0 |-> as_int(word[1]), d1 |-> as_int(word[2]),
     d2 |-> as_int(word[3]), d3 |-> as_int(word[4])]

note_id_to_digest(note_id) == word_to_digest(as_word(note_id))

account_id_to_proto(account_id) == [id |-> to_vec(to_bytes(account_id))]

----------------------------------------------------------------------------
(* Inputs the callers draw from *)

W1 == << Felt(u64(1)), Felt(u64(2)), Felt(u64(3)), Felt(u64(4)) >>
W2 == << Felt(<<291, 17767, 35243, 52719>>), Felt(<<65535, 65535, 0, 0>>),
         Felt(u64(0)), Felt(<<0, 0, 1, 255>>) >>

Words == {W1, W2}
WordLists == { <<>>, <<W1, W2>>, <<W2, W1, W2>> }

NoteIdLists == { <<>>, <<NoteId(W2), NoteId(W1)>>, <<NoteId(W1), NoteId(W1)>> }

A1 == AccountId(<<4660, 22136, 37035, 52736>>, <<1, 2, 3, 1024>>)
A2 == AccountId(u64(7), u64(256))
AccountIds == {A1, A2}
AccountIdLists == { <<>>, <<A2, A1>>, <<A1, A1, A2>> }

NoteTagLists == { <<>>, <<NoteTag(9), NoteTag(3)>>, <<NoteTag(3), NoteTag(3)>> }

BlockNums == {7}
OptBlockNums == {None, Some(0)}
ByteVecs == { <<>>, <<222, 173>> }
PrefixLens == {0, 16, 17}
PrefixLists == { <<>>, <<65535, 1, 1>> }
AccountRequestLists == { <<[account_id |-> account_id_to_proto(A2)]>> }

\* Digests the remote service answers with
D1234 == [d0 |-> u64(1), d1 |-> u64(2), d2 |-> u64(3), d3 |-> u64(4)]
DMixed == [d0 |-> <<291, 17767, 35243, 52719>>, d1 |-> <<65535, 65535, 65535, 65535>>,
           d2 |-> u64(0), d3 |-> <<43981, 0, 0, 10>>]
Digests == {D1234, DMixed}

\* Display text of the tonic::Status a failed remote call carries
StatusTexts == {"status: Unavailable", "status: DeadlineExceeded"}

----------------------------------------------------------------------------
(* MidenRpcClient::connect *)

WellFormedEndpoints == {"https://rpc.testnet.miden.io"}
MalformedEndpoints == {"rpc testnet miden io", "https://[::1"}
Endpoints == WellFormedEndpoints \cup MalformedEndpoints

\* An endpoint builder that accepts every string
from_shared_unchecked(endpoint) == Ok([uri |-> endpoint, tls |-> FALSE])

\* Channel::from_shared: parses the string as a URI
from_shared(endpoint) ==
    IF endpoint \in WellFormedEndpoints
    THEN Ok([uri |-> endpoint, tls |-> FALSE])
    ELSE Err("invalid uri")

\* Endpoint::tls_config with the platform's root certificates
tls_config(builder, tlsOk) ==
    IF tlsOk THEN Ok([builder EXCEPT !.tls = TRUE]) ELSE Err("transport error")

ApiClient_new(channel) == [client |-> channel]

\* connect up to its await: validation, TLS configuration, start of the handshake
connect(endpoint, tlsOk) ==
    /\ conn = "unconnected"
    /\ endpoint_str' = endpoint
    /\ LET shared == from_shared(endpoint) IN
       IF ~shared.ok
       THEN /\ connectLog' = <<"from_shared">>
            /\ connectResult' = Err("Invalid endpoint: " \o shared.err)
            /\ netIO' = 0
            /\ conn' = "unconnected"
       ELSE LET tls == tls_config(shared.value, tlsOk) IN
            IF ~tls.ok
            THEN /\ connectLog' = <<"from_shared", "tls_config">>
                 /\ connectResult' = Err("TLS config error: " \o tls.err)
                 /\ netIO' = 0
                 /\ conn' = "unconnected"
            ELSE /\ connectLog' = <<"from_shared", "tls_config", "connect">>
                 /\ connectResult' = NoResult
                 /\ netIO' = 1
                 /\ conn' = "handshaking"
    /\ UNCHANGED callVars

\* connect from its await on: the handshake completes or fails
connect_await(handshake) ==
    /\ conn = "handshaking"
    /\ IF handshake.ok
       THEN /\ conn' = "connected"
            /\ connectResult' = Ok(ApiClient_new([uri |-> endpoint_str, tls |-> TRUE]))
       ELSE /\ conn' = "unconnected"
            /\ connectResult' =
                   Err("Failed to connect to " \o endpoint_str \o ": " \o handshake.status)
    /\ UNCHANGED <<endpoint_str, connectLog, netIO>>
    /\ UNCHANGED callVars

Handshakes == {[ok |-> TRUE]} \cup {[ok |-> FALSE, status |-> "transport error"]}

----------------------------------------------------------------------------
(* Request construction of each operation *)

Request_new(message) == [message |-> message]
Unit == [unit |-> TRUE]

get_block_header_request(block_num, include_mmr_proof) ==
    [block_num |-> block_num, include_mmr_proof |-> Some(include_mmr_proof)]

submit_transaction_request(proven_tx_bytes) == [transaction |-> proven_tx_bytes]

\* A request that leaves out the sequences that are empty
sync_state_request_omitting(block_num, account_ids, note_tags) ==
    LET ids == [i \in 1..Len(account_ids) |-> account_id_to_proto(account_ids[i])]
        tags == [i \in 1..Len(note_tags) |-> as_u32(note_tags[i])]
        base == [block_num |-> block_num]
        withIds == IF ids = <<>> THEN base
                   ELSE [f \in DOMAIN base \cup {"account_ids"} |->
                            IF f = "account_ids" THEN ids ELSE base[f]]
    IN  IF tags = <<>> THEN withIds
        ELSE [f \in DOMAIN withIds \cup {"note_tags"} |->
                 IF f = "note_tags" THEN tags ELSE withIds[f]]

sync_state_request(block_num, account_ids, note_tags) ==
    [block_num |-> block_num,
     account_ids |-> [i \in 1..Len(account_ids) |-> account_id_to_proto(account_ids[i])],
     note_tags |-> [i \in 1..Len(note_tags) |-> as_u32(note_tags[i])]]

\* A conversion that keeps only the first occurrence of each nullifier
RECURSIVE Dedup(_)
Dedup(s) ==
    IF s = <<>> THEN <<>>
    ELSE LET rest == Dedup(SubSeq(s, 1, Len(s) - 1))
             last == s[Len(s)]
         IN  IF \E i \in 1..Len(rest) : rest[i] = last THEN rest ELSE Append(rest, last)

check_nullifiers_request_dedup(nullifiers) ==
    [nullifiers |-> Dedup([i \in 1..Len(nullifiers) |-> word_to_digest(nullifiers[i])])]

check_nullifiers_request(nullifiers) ==
    [nullifiers |-> [i \in 1..Len(nullifiers) |-> word_to_digest(nullifiers[i])]]

get_notes_by_id_request(note_ids) ==
    [ids |-> [i \in 1..Len(note_ids) |-> [id |-> Some(note_id_to_digest(note_ids[i]))]]]

account_details_request(account_id) == [id |-> to_vec(to_bytes(account_id))]

get_account_proofs_request(account_requests, include_headers, code_commitments) ==
    [account_requests |-> account_requests,
     include_headers |-> Some(include_headers),
     code_commitments |->
         [i \in 1..Len(code_commitments) |-> word_to_digest(code_commitments[i])]]

get_block_by_number_request(block_num) == [block_num |-> block_num]

submit_proven_batch_request(encoded_batch) == [encoded |-> encoded_batch]

\* A request that forces the only prefix length the service supports
check_nullifiers_by_prefix_request_clamped(prefix_len, nullifiers, block_num) ==
    [prefix_len |-> 16, nullifiers |-> nullifiers, block_num |-> block_num]

check_nullifiers_by_prefix_request(prefix_len, nullifiers, block_num) ==
    [prefix_len |-> prefix_len, nullifiers |-> nullifiers, block_num |-> block_num]

sync_account_vault_request(account_id, block_from, block_to) ==
    [account_id |-> Some(account_id_to_proto(account_id)),
     block_from |-> block_from, block_to |-> block_to]

sync_notes_request(block_num, note_tags) ==
    [block_num |-> block_num,
     note_tags |-> [i \in 1..Len(note_tags) |-> as_u32(note_tags[i])]]

sync_storage_maps_request(account_id, block_from, block_to) ==
    [account_id |-> Some(account_id_to_proto(account_id)),
     block_from |-> block_from, block_to |-> block_to]

----------------------------------------------------------------------------
(* What the remote service and the transport answer *)

AccountDetailsMsgs ==
    { [summary |-> None], [summary |-> Some([account_commitment |-> None])] }
        \cup { [summary |-> Some([account_commitment |-> Some(d)])] : d \in Digests }

Responses(rpc) ==
    { [ok |-> FALSE, status |-> t] : t \in StatusTexts }
        \cup IF rpc = "get_account_details"
             THEN { [ok |-> TRUE, inner |-> m] : m \in AccountDetailsMsgs }
             ELSE { [ok |-> TRUE, inner |-> [reply_to |-> rpc]] }

into_inner(response) == response.inner

----------------------------------------------------------------------------
(* Mapping of the awaited outcome to the returned Result *)

ErrorLabel(op) ==
    CASE op = "get_status" -> "Status RPC failed: "
      [] op = "get_block_header" -> "GetBlockHeaderByNumber RPC failed: "
      [] op = "submit_transaction" -> "SubmitProvenTransaction RPC failed: "
      [] op = "sync_state" -> "SyncState RPC failed: "
      [] op = "check_nullifiers" -> "CheckNullifiers RPC failed: "
      [] op = "get_notes_by_id" -> "GetNotesById RPC failed: "
      [] op = "get_account_commitment" -> "RPC call failed: "
      [] op = "get_account_details" -> "RPC call failed: "
      [] op = "get_account_proofs" -> "GetAccountProofs RPC failed: "
      [] op = "get_block_by_number" -> "GetBlockByNumber RPC failed: "
      [] op = "submit_proven_batch" -> "SubmitProvenBatch RPC failed: "
      [] op = "check_nullifiers_by_prefix" -> "CheckNullifiersByPrefix RPC failed: "
      [] op = "sync_account_vault" -> "SyncAccountVault RPC failed: "
      [] op = "sync_notes" -> "SyncNotes RPC failed: "
      [] op = "sync_storage_maps" -> "SyncStorageMaps RPC failed: "

\* An error value that keeps the label and loses the transport's text
map_err_label_only(op, status) == Err(ErrorLabel(op))

\* .map_err(|e| format!("<label>{}", e))
map_err(op, status) == Err(ErrorLabel(op) \o status)

\* The digest's bytes with each word written most significant byte first
digest_le_bytes_big_endian(commitment) ==
    concat(<< to_be_bytes(commitment.d0), to_be_bytes(commitment.d1),
              to_be_bytes(commitment.d2), to_be_bytes(commitment.d3) >>)

digest_le_bytes(commitment) ==
    concat(<< to_le_bytes(commitment.d0), to_le_bytes(commitment.d1),
              to_le_bytes(commitment.d2), to_le_bytes(commitment.d3) >>)

digest_hex(commitment) == "0x" \o hex_encode(digest_le_bytes(commitment))

\* An extraction that answers a missing field with the default digest
extract_commitment_or_default(account_details) ==
    LET zero == [d0 |-> u64(0), d1 |-> u64(0), d2 |-> u64(0), d3 |-> u64(0)]
        summary == account_details.summary IN
    IF ~summary.some THEN Ok(digest_hex(zero))
    ELSE IF ~summary.value.account_commitment.some THEN Ok(digest_hex(zero))
    ELSE Ok(digest_hex(summary.value.account_commitment.value))

\* get_account_commitment after a successful remote call
extract_commitment(account_details) ==
    LET summary == account_details.summary IN
    IF ~summary.some THEN Err("No account summary in response")
    ELSE LET commitment == summary.value.account_commitment IN
         IF ~commitment.some THEN Err("No commitment in account summary")
         ELSE Ok(digest_hex(commitment.value))

Returned(op, response) ==
    IF ~response.ok THEN map_err(op, response.status)
    ELSE IF op = "get_account_commitment" THEN extract_commitment(into_inner(response))
    ELSE Ok(into_inner(response))

----------------------------------------------------------------------------
(* The operations.  Each takes `&mut self`: the caller holds the adapter    *)
(* exclusively from the invocation until the awaited call has returned.    *)

\* A shared borrow (`&self`) would let every caller in
CanBorrowShared(c) == TRUE

\* `&mut self`: no other caller's call is using the adapter
CanBorrowMut(c) == borrow = NoCaller

\* Build the request, hand it to the stub method `rpc`, suspend at the await
Invoke(c, op, rpc, args, message) ==
    /\ pc[c] = "idle"
    /\ CanBorrowMut(c)
    /\ invocations < MaxCalls
    /\ borrow' = c
    /\ pc' = [pc EXCEPT ![c] = "awaiting"]
    /\ call' = [call EXCEPT ![c] =
                   [op |-> op, rpc |-> rpc, args |-> args,
                    request |-> Request_new(message), issued |-> 1]]
    /\ result' = [result EXCEPT ![c] = NoResult]
    /\ invocations' = invocations + 1
    /\ remoteCalls' = remoteCalls + 1
    /\ UNCHANGED connVars

get_status(c) ==
    /\ conn = "connected"
    /\ Invoke(c, "get_status", "status", Unit, Unit)

get_block_header(c) ==
    /\ conn = "connected"
    /\ \E block_num \in OptBlockNums, include_mmr_proof \in BOOLEAN :
        Invoke(c, "get_block_header", "get_block_header_by_number",
               [block_num |-> block_num, include_mmr_proof |-> include_mmr_proof],
               get_block_header_request(block_num, include_mmr_proof))

submit_transaction(c) ==
    /\ conn = "connected"
    /\ \E proven_tx_bytes \in ByteVecs :
        Invoke(c, "submit_transaction", "submit_proven_transaction",
               [proven_tx_bytes |-> proven_tx_bytes],
               submit_transaction_request(proven_tx_bytes))

sync_state(c) ==
    /\ conn = "connected"
    /\ \E block_num \in BlockNums, account_ids \in AccountIdLists, note_tags \in NoteTagLists :
        Invoke(c, "sync_state", "sync_state",
               [block_num |-> block_num, account_ids |-> account_ids,
                note_tags |-> note_tags],
               sync_state_request(block_num, account_ids, note_tags))

check_nullifiers(c) ==
    /\ conn = "connected"
    /\ \E nullifiers \in WordLists :
        Invoke(c, "check_nullifiers", "check_nullifiers",
               [nullifiers |-> nullifiers],
               check_nullifiers_request(nullifiers))

get_notes_by_id(c) ==
    /\ conn = "connected"
    /\ \E note_ids \in NoteIdLists :
        Invoke(c, "get_notes_by_id", "get_notes_by_id",
               [note_ids |-> note_ids],
               get_notes_by_id_request(note_ids))

get_account_commitment(c) ==
    /\ conn = "connected"
    /\ \E account_id \in AccountIds :
        Invoke(c, "get_account_commitment", "get_account_details",
               [account_id |-> account_id],
               account_details_request(account_id))

get_account_details(c) ==
    /\ conn = "connected"
    /\ \E account_id \in AccountIds :
        Invoke(c, "get_account_details", "get_account_details",
               [account_id |-> account_id],
               account_details_request(account_id))

get_account_proofs(c) ==
    /\ conn = "connected"
    /\ \E account_requests \in AccountRequestLists, include_headers \in BOOLEAN,
       code_commitments \in WordLists :
        Invoke(c, "get_account_proofs", "get_account_proofs",
               [account_requests |-> account_requests,
                include_headers |-> include_headers,
                code_commitments |-> code_commitments],
               get_account_proofs_request(account_requests, include_headers,
                                          code_commitments))

get_block_by_number(c) ==
    /\ conn = "connected"
    /\ \E block_num \in BlockNums :
        Invoke(c, "get_block_by_number", "get_block_by_number",
               [block_num |-> block_num],
               get_block_by_number_request(block_num))

submit_proven_batch(c) ==
    /\ conn = "connected"
    /\ \E encoded_batch \in ByteVecs :
        Invoke(c, "submit_proven_batch", "submit_proven_batch",
               [encoded_batch |-> encoded_batch],
               submit_proven_batch_request(encoded_batch))

check_nullifiers_by_prefix(c) ==
    /\ conn = "connected"
    /\ \E prefix_len \in PrefixLens, nullifiers \in PrefixLists, block_num \in BlockNums :
        Invoke(c, "check_nullifiers_by_prefix", "check_nullifiers_by_prefix",
               [prefix_len |-> prefix_len, nullifiers |-> nullifiers,
                block_num |-> block_num],
               check_nullifiers_by_prefix_request(prefix_len, nullifiers, block_num))

sync_account_vault(c) ==
    /\ conn = "connected"
    /\ \E account_id \in AccountIds, block_from \in BlockNums, block_to \in OptBlockNums :
        Invoke(c, "sync_account_vault", "sync_account_vault",
               [account_id |-> account_id, block_from |-> block_from,
                block_to |-> block_to],
               sync_account_vault_request(account_id, block_from, block_to))

sync_notes(c) ==
    /\ conn = "connected"
    /\ \E block_num \in BlockNums, note_tags \in NoteTagLists :
        Invoke(c, "sync_notes", "sync_notes",
               [block_num |-> block_num, note_tags |-> note_tags],
               sync_notes_request(block_num, note_tags))

sync_storage_maps(c) ==
    /\ conn = "connected"
    /\ \E account_id \in AccountIds, block_from \in BlockNums, block_to \in OptBlockNums :
        Invoke(c, "sync_storage_maps", "sync_storage_maps",
               [account_id |-> account_id, block_from |-> block_from,
                block_to |-> block_to],
               sync_storage_maps_request(account_id, block_from, block_to))

\* The operation returns what the outcome maps to and the borrow ends
Return(c, response) ==
    /\ result' = [result EXCEPT ![c] =
                     [response |-> response, ret |-> Returned(call[c].op, response)]]
    /\ pc' = [pc EXCEPT ![c] = "idle"]
    /\ borrow' = IF borrow = c THEN NoCaller ELSE borrow
    /\ UNCHANGED <<call, invocations, remoteCalls>>

\* An await that issues the call again when the transport reports a failure
await_response_retrying(c) ==
    /\ pc[c] = "awaiting"
    /\ \E response \in Responses(call[c].rpc) :
          IF ~response.ok /\ remoteCalls < MaxCalls + 1
          THEN /\ call' = [call EXCEPT ![c].issued = @ + 1]
               /\ remoteCalls' = remoteCalls + 1
               /\ UNCHANGED <<pc, borrow, result, invocations>>
          ELSE Return(c, response)
    /\ UNCHANGED connVars

\* The awaited remote call completes with a response or a transport error
await_response(c) ==
    /\ pc[c] = "awaiting"
    /\ \E response \in Responses(call[c].rpc) : Return(c, response)
    /\ UNCHANGED connVars

----------------------------------------------------------------------------

Init ==
    /\ conn = "unconnected"
    /\ endpoint_str = ""
    /\ connectLog = <<>>
    /\ netIO = 0
    /\ connectResult = NoResult
    /\ pc = [c \in Callers |-> "idle"]
    /\ borrow = NoCaller
    /\ call = [c \in Callers |-> NoCall]
    /\ result = [c \in Callers |-> NoResult]
    /\ invocations = 0
    /\ remoteCalls = 0

Next ==
    \/ \E endpoint \in Endpoints, tlsOk \in BOOLEAN : connect(endpoint, tlsOk)
    \/ \E handshake \in Handshakes : connect_await(handshake)
    \/ \E c \in Callers : get_status(c)
    \/ \E c \in Callers : get_block_header(c)
    \/ \E c \in Callers : submit_transaction(c)
    \/ \E c \in Callers : sync_state(c)
    \/ \E c \in Callers : check_nullifiers(c)
    \/ \E c \in Callers : get_notes_by_id(c)
    \/ \E c \in Callers : get_account_commitment(c)
    \/ \E c \in Callers : get_account_details(c)
    \/ \E c \in Callers : get_account_proofs(c)
    \/ \E c \in Callers : get_block_by_number(c)
    \/ \E c \in Callers : submit_proven_batch(c)
    \/ \E c \in Callers : check_nullifiers_by_prefix(c)
    \/ \E c \in Callers : sync_account_vault(c)
    \/ \E c \in Callers : sync_notes(c)
    \/ \E c \in Callers : sync_storage_maps(c)
    \/ \E c \in Callers : await_response(c)

Spec == Init /\ [][Next]_vars

----------------------------------------------------------------------------
(* Vocabulary of the properties *)

Invoked(c) == call[c].op # "none"
InFlight(c) == pc[c] = "awaiting"
Completed(c) == Invoked(c) /\ pc[c] = "idle"

IsResult(ret) == DOMAIN ret = {"ok", "value"} \/ DOMAIN ret = {"ok", "err"}
IsError(ret) == DOMAIN ret = {"ok", "err"} /\ ~ret.ok /\ ret.err # ""

HasSummary(msg) == msg.summary.some
HasCommitment(msg) == HasSummary(msg) /\ msg.summary.value.account_commitment.some
CommitmentOf(msg) == msg.summary.value.account_commitment.value

\* Byte j (0 = least significant) of a 64-bit integer
ByteOf(x, j) ==
    LET limb == x[4 - (j \div 2)] IN
    IF j % 2 = 0 THEN limb % 256 ELSE limb \div 256

\* Byte k (0..31) of the little-endian layout of four 64-bit words
ByteOfWords(words, k) == ByteOf(words[(k \div 8) + 1], k % 8)

LowerHexDigit(n) == SubSeq("0123456789abcdef", n + 1, n + 1)

\* text is "0x" and then, for each of the 32 bytes in order, its two lowercase
\* hex digits
IsHexOfWords(text, words) ==
    /\ Len(text) = 66
    /\ SubSeq(text, 1, 2) = "0x"
    /\ \A k \in 0..31 :
          /\ SubSeq(text, 3 + 2 * k, 3 + 2 * k) = LowerHexDigit(ByteOfWords(words, k) \div 16)
          /\ SubSeq(text, 4 + 2 * k, 4 + 2 * k) = LowerHexDigit(ByteOfWords(words, k) % 16)

DigestWords(d) == << d.d0, d.d1, d.d2, d.d3 >>
WordInts(w) == << as_int(w[1]), as_int(w[2]), as_int(w[3]), as_int(w[4]) >>

Hex1234 == "0x0100000000000000020000000000000003000000000000000400000000000000"

EndsWith(text, suffix) ==
    /\ Len(text) > Len(suffix)
    /\ SubSeq(text, Len(text) - Len(suffix) + 1, Len(text)) = suffix

----------------------------------------------------------------------------
(* C1: get_account_commitment returns an error value, never a panic and     *)
(* never an Ok, when the account-details response lacks a summary or the   *)
(* summary lacks a commitment; it returns Ok only when the remote call     *)
(* succeeded and both nested fields are present.                           *)
C1_CommitmentMissingFieldIsError ==
    \A c \in Callers :
        (Completed(c) /\ call[c].op = "get_account_commitment") =>
            LET response == result[c].response
                ret == result[c].ret
            IN  /\ IsResult(ret)
                /\ (response.ok /\ ~HasSummary(response.inner)) => IsError(ret)
                /\ (response.ok /\ HasSummary(response.inner)
                        /\ ~HasCommitment(response.inner)) => IsError(ret)
                /\ ret.ok <=> (response.ok /\ HasCommitment(response.inner))

\* one caller got a response without summary, the other one without commitment
C1_Witness ==
    \E c, d \in Callers :
        /\ Completed(c) /\ call[c].op = "get_account_commitment"
        /\ result[c].response.ok /\ ~HasSummary(result[c].response.inner)
        /\ ~result[c].ret.ok
        /\ Completed(d) /\ call[d].op = "get_account_commitment"
        /\ result[d].response.ok /\ HasSummary(result[d].response.inner)
        /\ ~HasCommitment(result[d].response.inner)
        /\ ~result[d].ret.ok

(* C2: for every commitment digest (d0,d1,d2,d3) the service returns,       *)
(* get_account_commitment yields "0x" followed by the lowercase hex of the *)
(* 32 bytes of the little-endian encodings of d0, d1, d2, d3 in that       *)
(* order; words (1,2,3,4) give 0x0100..0400..                              *)
C2_CommitmentHexIsLittleEndian ==
    \A c \in Callers :
        (Completed(c) /\ call[c].op = "get_account_commitment"
            /\ result[c].response.ok /\ HasCommitment(result[c].response.inner)) =>
            LET commitment == CommitmentOf(result[c].response.inner)
                ret == result[c].ret
            IN  /\ ret.ok
                /\ IsHexOfWords(ret.value, DigestWords(commitment))
                /\ (commitment = D1234) => ret.value = Hex1234

C2_Witness ==
    \E c, d \in Callers :
        /\ Completed(c) /\ call[c].op = "get_account_commitment"
        /\ result[c].response.ok /\ HasCommitment(result[c].response.inner)
        /\ CommitmentOf(result[c].response.inner) = D1234
        /\ result[c].ret = Ok(Hex1234)
        /\ Completed(d) /\ call[d].op = "get_account_commitment"
        /\ result[d].response.ok /\ HasCommitment(result[d].response.inner)
        /\ CommitmentOf(result[d].response.inner) = DMixed
        /\ result[d].ret.ok

(* C3: converting a word to wire form (d0..d3 from word elements 0..3) and  *)
(* back by the little-endian concatenation of d0..d3 reproduces the        *)
(* little-endian byte sequence of the word.                                *)
C3_WordDigestRoundTrip ==
    \A c \in Callers :
        (Invoked(c) /\ call[c].op = "check_nullifiers") =>
            LET words == call[c].args.nullifiers
                digests == call[c].request.message.nullifiers
            IN  /\ Len(digests) = Len(words)
                /\ \A i \in 1..Len(words) :
                      digest_le_bytes(digests[i]) =
                          [k \in 1..32 |-> ByteOfWords(WordInts(words[i]), k - 1)]

C3_Witness ==
    \E c \in Callers :
        /\ InFlight(c) /\ call[c].op = "check_nullifiers"
        /\ \E i \in 1..Len(call[c].args.nullifiers) : call[c].args.nullifiers[i] = W2
        /\ \E i \in 1..Len(call[c].args.nullifiers) :
              /\ call[c].args.nullifiers[i] = W1
              /\ digest_hex(call[c].request.message.nullifiers[i]) = Hex1234

(* C4: connect with a malformed endpoint fails with a connection-           *)
(* configuration error before any network I/O: validation precedes TLS     *)
(* configuration, which precedes the handshake, and the first failing step *)
(* ends connect without the later steps and without an adapter.            *)
ConnectSteps == <<"from_shared", "tls_config", "connect">>

C4_ConnectFailsBeforeNetworkIO ==
    /\ \E n \in 0..3 : connectLog = SubSeq(ConnectSteps, 1, n)
    /\ (connectLog # <<>> /\ endpoint_str \in MalformedEndpoints) =>
          /\ connectLog = <<"from_shared">>
          /\ netIO = 0
          /\ conn = "unconnected"
          /\ IsError(connectResult)
          /\ SubSeq(connectResult.err, 1, 18) = "Invalid endpoint: "
    /\ (connectLog = <<"from_shared", "tls_config">>) =>
          /\ netIO = 0
          /\ conn = "unconnected"
          /\ IsError(connectResult)
          /\ SubSeq(connectResult.err, 1, 18) = "TLS config error: "
    /\ (netIO > 0 \/ conn # "unconnected") => connectLog = ConnectSteps
    /\ (conn = "connected") <=> (DOMAIN connectResult = {"ok", "value"} /\ connectResult.ok)

C4_Witness ==
    /\ endpoint_str \in MalformedEndpoints
    /\ connectLog = <<"from_shared">>
    /\ netIO = 0
    /\ conn = "unconnected"
    /\ ~connectResult.ok

(* C5: every invocation of an operation issues exactly one remote call;     *)
(* when the call fails the operation returns the error without issuing the *)
(* call again, for every operation and after any sequence of earlier calls.*)
C5_OneRemoteCallPerInvocation ==
    /\ remoteCalls = invocations
    /\ \A c \in Callers :
          Invoked(c) =>
              /\ call[c].issued = 1
              /\ (Completed(c) /\ ~result[c].response.ok) => IsError(result[c].ret)

\* a second invocation has failed after an earlier one failed too
C5_Witness ==
    /\ invocations = MaxCalls
    /\ remoteCalls = MaxCalls
    /\ \A c \in Callers : Completed(c) /\ ~result[c].response.ok /\ ~result[c].ret.ok

(* C6 as stated: once connected, a caller can issue a call at any time, also *)
(* while another caller's call on the same adapter is in flight.            *)
C6_ConcurrentCallsOverlap ==
    /\ (invocations > 0) => conn = "connected"
    /\ \A c \in Callers :
          (conn = "connected" /\ pc[c] = "idle" /\ invocations < MaxCalls) =>
              ENABLED get_status(c)

(* C6 amended: once connect has succeeded no call, successful or failed,    *)
(* moves the adapter out of the connected state, so it is reusable for     *)
(* further calls; the calls of one adapter are sequential: at most one is  *)
(* in flight at a time, and its caller holds the adapter exclusively.      *)
C6_ReusableOneCallAtATime ==
    /\ (invocations > 0) => conn = "connected"
    /\ (conn = "connected" /\ invocations < MaxCalls /\ borrow = NoCaller) =>
          \A c \in Callers : ENABLED get_status(c)
    /\ Cardinality({c \in Callers : InFlight(c)}) <= 1
    /\ \A c \in Callers : InFlight(c) <=> borrow = c

\* after one caller's call has failed another caller's call is in flight
C6_Witness ==
    \E c, d \in Callers :
        /\ c # d
        /\ conn = "connected"
        /\ Completed(c) /\ ~result[c].ret.ok
        /\ InFlight(d)

(* C7: for every operation a transport failure of the remote call is       *)
(* returned as an error value made of a descriptive label followed by the  *)
(* transport's error text; it is never a success and never swallowed.      *)
C7_TransportFailureIsLabelledError ==
    \A c \in Callers :
        (Completed(c) /\ ~result[c].response.ok) =>
            /\ IsError(result[c].ret)
            /\ EndsWith(result[c].ret.err, result[c].response.status)

\* two different operations failed with two different transport errors
C7_Witness ==
    \E c, d \in Callers :
        /\ Completed(c) /\ call[c].op = "get_block_header"
        /\ ~result[c].response.ok /\ ~result[c].ret.ok
        /\ Completed(d) /\ call[d].op = "get_account_details"
        /\ ~result[d].response.ok /\ ~result[d].ret.ok
        /\ result[c].response.status # result[d].response.status

(* C8: sync_state with an empty account-identifier list and an empty       *)
(* note-tag list issues exactly one well-formed request carrying the given *)
(* block number and two empty sequences (present, not omitted).            *)
C8_SyncStateEmptyListsRequest ==
    /\ \A c \in Callers :
          (Invoked(c) /\ call[c].op = "sync_state"
              /\ call[c].args.account_ids = <<>> /\ call[c].args.note_tags = <<>>) =>
              /\ call[c].issued = 1
              /\ call[c].rpc = "sync_state"
              /\ DOMAIN call[c].request.message = {"block_num", "account_ids", "note_tags"}
              /\ call[c].request.message.block_num = call[c].args.block_num
              /\ call[c].request.message.account_ids = <<>>
              /\ call[c].request.message.note_tags = <<>>
    /\ (conn = "connected" /\ borrow = NoCaller /\ invocations < MaxCalls) =>
          \A c \in Callers, block_num \in BlockNums :
              ENABLED Invoke(c, "sync_state", "sync_state",
                             [block_num |-> block_num, account_ids |-> <<>>,
                              note_tags |-> <<>>],
                             sync_state_request(block_num, <<>>, <<>>))

C8_Witness ==
    \E c \in Callers :
        /\ InFlight(c) /\ call[c].op = "sync_state"
        /\ call[c].args.account_ids = <<>> /\ call[c].args.note_tags = <<>>
        /\ call[c].request.message.account_ids = <<>>

(* C9: check_nullifiers_by_prefix passes prefix length, prefix list and    *)
(* block number through unconverted for every prefix length, also lengths  *)
(* other than 16: nothing is rejected locally and the request fields equal *)
(* the arguments.                                                          *)
C9_PrefixArgumentsPassThrough ==
    /\ \A c \in Callers :
          (Invoked(c) /\ call[c].op = "check_nullifiers_by_prefix") =>
              /\ call[c].issued = 1
              /\ call[c].request.message.prefix_len = call[c].args.prefix_len
              /\ call[c].request.message.nullifiers = call[c].args.nullifiers
              /\ call[c].request.message.block_num = call[c].args.block_num
    /\ (conn = "connected" /\ borrow = NoCaller /\ invocations < MaxCalls) =>
          \A c \in Callers, prefix_len \in PrefixLens, nullifiers \in PrefixLists,
             block_num \in BlockNums :
              ENABLED Invoke(c, "check_nullifiers_by_prefix", "check_nullifiers_by_prefix",
                             [prefix_len |-> prefix_len, nullifiers |-> nullifiers,
                              block_num |-> block_num],
                             check_nullifiers_by_prefix_request(prefix_len, nullifiers,
                                                                block_num))

C9_Witness ==
    \E c \in Callers :
        /\ InFlight(c) /\ call[c].op = "check_nullifiers_by_prefix"
        /\ call[c].args.prefix_len = 17
        /\ call[c].request.message.prefix_len = 17
        /\ call[c].args.nullifiers # <<>>

(* C10: in every list-converting operation the wire sequence has the       *)
(* length of the input list and its i-th element is the wire form of the   *)
(* i-th input element: order and duplicates are kept, nothing is dropped   *)
(* or added.                                                               *)
WireDigest(w) == [d0 |-> w[1].int, d1 |-> w[2].int, d2 |-> w[3].int, d3 |-> w[4].int]
WireAccountId(a) == [id |-> to_bytes(a)]

C10_ListsConvertedElementwise ==
    \A c \in Callers :
        Invoked(c) =>
            LET op == call[c].op
                args == call[c].args
                msg == call[c].request.message
            IN  /\ (op = "sync_state") =>
                      /\ Len(msg.account_ids) = Len(args.account_ids)
                      /\ \A i \in 1..Len(args.account_ids) :
                            msg.account_ids[i] = WireAccountId(args.account_ids[i])
                      /\ Len(msg.note_tags) = Len(args.note_tags)
                      /\ \A i \in 1..Len(args.note_tags) :
                            msg.note_tags[i] = args.note_tags[i].tag
                /\ (op = "sync_notes") =>
                      /\ Len(msg.note_tags) = Len(args.note_tags)
                      /\ \A i \in 1..Len(args.note_tags) :
                            msg.note_tags[i] = args.note_tags[i].tag
                /\ (op = "check_nullifiers") =>
                      /\ Len(msg.nullifiers) = Len(args.nullifiers)
                      /\ \A i \in 1..Len(args.nullifiers) :
                            msg.nullifiers[i] = WireDigest(args.nullifiers[i])
                /\ (op = "get_notes_by_id") =>
                      /\ Len(msg.ids) = Len(args.note_ids)
                      /\ \A i \in 1..Len(args.note_ids) :
                            msg.ids[i] = [id |-> Some(WireDigest(args.note_ids[i].word))]
                /\ (op = "get_account_proofs") =>
                      /\ Len(msg.code_commitments) = Len(args.code_commitments)
                      /\ \A i \in 1..Len(args.code_commitments) :
                            msg.code_commitments[i] = WireDigest(args.code_commitments[i])

\* a list with a repeated element, out of order, is on the wire
C10_Witness ==
    \E c \in Callers :
        /\ InFlight(c) /\ call[c].op = "check_nullifiers"
        /\ call[c].args.nullifiers = <<W2, W1, W2>>
        /\ Len(call[c].request.message.nullifiers) = 3

====
